---- MODULE Spec2Model ----
(***************************************************************************)
(* State-machine model of nengo_viz/components/netgraph.py: the Config     *)
(* layout store with its dumps/exec persistence, and the NetGraph          *)
(* component (expansion queue, uid registry, lazy parent index, client     *)
(* action handlers, the shared lock).                                      *)
(*                                                                         *)
(* Coordinates are written in tenths: (0.1, 0.1) is <<1, 1>>, 3.5 is 35.   *)
(* Python's None is "None" for objects and uids and <<>> for a pos/size.   *)
(***************************************************************************)
EXTENDS Integers, Sequences, FiniteSets, TLC

VARIABLES
    topo,                \* which network hierarchy viz.model is (fixed per run)
    live,                \* the sessions (browser pages) that are connected
    filename,            \* viz.viz.filename is not None (fixed per run)
    writable,            \* open(filename + '.cfg', 'w') succeeds (fixed per run)
    file,                \* content of filename + '.cfg': a sequence of lines
    cache,               \* NetGraph.configs[viz.model] (used when filename is None)
    config,              \* the Config a file-backed session loaded, per session
    to_be_expanded,      \* self.to_be_expanded, per session
    uids,                \* self.uids: uid -> object, per session
    parents,             \* self.parents: uid -> parent uid, per session
    networks_to_search,  \* self.networks_to_search, per session
    searched,            \* history: every network popped from networks_to_search
    lock,                \* viz.viz.lock: "None" or the session that acquired it
    pc,                  \* "idle" or "expanding" (inside update_client), per session
    cur,                 \* the network the latest update_client popped, per session
    out,                 \* what that update_client wrote to the client, per session
    raised,              \* the exception the session's latest call raised, or "None"
    last_collapsed,      \* history: sub-networks whose last expand/collapse was collapse
    enqueued,            \* history: every object put on to_be_expanded, in order
    popped,              \* history: every object popped from to_be_expanded, in order
    shown,               \* history: pos/size last sent for an object, until moved/resized
    nacts,               \* number of client messages handled so far
    nrestarts            \* number of sessions re-created so far

vars == <<topo, live, filename, writable, file, cache, config, to_be_expanded,
          uids, parents, networks_to_search, searched, lock, pc, cur, out, raised,
          last_collapsed, enqueued, popped,
          shown, nacts, nrestarts>>

----------------------------------------------------------------------------
(* Bounds of the model *)

MaxActs == 2
MaxRestarts == 1

Sessions == {"s1", "s2"}

----------------------------------------------------------------------------
(* The network object model (external collaborator): three hierarchies.    *)
(*   empty : the root has no children                                      *)
(*   flat  : root { ensemble E, node N }                                   *)
(*   nested: root { ensemble E, node N, networks S { ensemble E2 }, T {},  *)
(*                  connection c1 : E -> E2 }                              *)
(* and two more for the ancestor chains:                                   *)
(*   foreign: root { ensemble E, connection c2 : E -> X }, where X is an   *)
(*            object no network lists among its children                   *)
(*   deep   : root { network A { network B { network C { ensembles D1,     *)
(*            D2 } }, connection c4 : D2 -> D1 }, connection c3 : D1 ->    *)
(*            D2 }                                                         *)

Root == "model"

Topologies == {"empty", "flat", "nested"}

ChainTopologies == {"nested", "foreign", "deep"}

Objects == {"model", "E", "N", "S", "T", "E2", "A", "B", "C", "D1", "D2"}

Connections == {"c1", "c2", "c3", "c4"}

Kind(obj) ==
    CASE obj \in {"E", "E2", "D1", "D2"} -> "ens"
      [] obj = "N" -> "node"
      [] obj \in {"model", "S", "T", "A", "B", "C"} -> "net"
      [] OTHER -> "conn"

ensembles(t, net) ==
    CASE net = "model" /\ t \in {"flat", "nested", "foreign"} -> <<"E">>
      [] net = "S" -> <<"E2">>
      [] net = "C" -> <<"D1", "D2">>
      [] OTHER -> <<>>

nodes(t, net) ==
    CASE net = "model" /\ t \in {"flat", "nested"} -> <<"N">>
      [] OTHER -> <<>>

networks(t, net) ==
    CASE net = "model" /\ t = "nested" -> <<"S", "T">>
      [] net = "model" /\ t = "deep" -> <<"A">>
      [] net = "A" -> <<"B">>
      [] net = "B" -> <<"C">>
      [] OTHER -> <<>>

connections(t, net) ==
    CASE net = "model" /\ t = "nested" -> <<"c1">>
      [] net = "model" /\ t = "foreign" -> <<"c2">>
      [] net = "model" /\ t = "deep" -> <<"c3">>
      [] net = "A" -> <<"c4">>
      [] OTHER -> <<>>

pre_obj(conn) ==
    CASE conn \in {"c1", "c2"} -> "E"
      [] conn = "c3" -> "D1"
      [] conn = "c4" -> "D2"

post_obj(conn) ==
    CASE conn = "c1" -> "E2"
      [] conn = "c2" -> "X"
      [] conn = "c3" -> "D2"
      [] conn = "c4" -> "D1"

(* viz.viz.get_uid: an injective, stable name for every object. *)
get_uid(obj) ==
    CASE obj = "model" -> "uid_model"
      [] obj = "E" -> "uid_E"
      [] obj = "N" -> "uid_N"
      [] obj = "S" -> "uid_S"
      [] obj = "T" -> "uid_T"
      [] obj = "E2" -> "uid_E2"
      [] obj = "A" -> "uid_A"
      [] obj = "B" -> "uid_B"
      [] obj = "C" -> "uid_C"
      [] obj = "D1" -> "uid_D1"
      [] obj = "D2" -> "uid_D2"
      [] obj = "X" -> "uid_X"

(* 'conn_%d' % id(conn) *)
conn_uid(conn) ==
    CASE conn = "c1" -> "conn_1"
      [] conn = "c2" -> "conn_2"
      [] conn = "c3" -> "conn_3"
      [] conn = "c4" -> "conn_4"

(* viz.viz.get_label *)
get_label(obj) == obj

(* What evaluating the uid text gives back inside exec: the named object. *)
Resolve(uid) == CHOOSE obj \in Objects : get_uid(obj) = uid

(* Every uid a session can hold, in the order sorted() puts the strings. *)
UidOrder ==
    <<"conn_1", "conn_2", "conn_3", "conn_4", "uid_A", "uid_B", "uid_C", "uid_D1", "uid_D2",
      "uid_E", "uid_E2", "uid_N", "uid_S", "uid_T", "uid_model">>

Uids == {UidOrder[i] : i \in 1..Len(UidOrder)}

(* The uids a client can have been sent for the hierarchy under net *)
RECURSIVE UidsUnder(_, _)
UidsUnder(t, net) ==
    LET objs == nodes(t, net) \o ensembles(t, net) \o networks(t, net)
        conns == connections(t, net)
        subs == networks(t, net)
    IN  {get_uid(objs[i]) : i \in 1..Len(objs)}
            \cup {conn_uid(conns[i]) : i \in 1..Len(conns)}
            \cup UNION {UidsUnder(t, subs[i]) : i \in 1..Len(subs)}

(* The uids of inbound actions: those of the model, and one of no object *)
UidInputs == UidsUnder(topo, Root) \cup {"uid_X"}

----------------------------------------------------------------------------
(* Values *)

NonePos == <<>>

DEFAULT_SIZE == <<1, 1>>

DEFAULT_PAN == <<0, 0>>

DEFAULT_ZOOM == 10

(* random.uniform(0, 1), random.uniform(0, 1): two points of the unit square *)
RandomPos == {<<2, 7>>, <<6, 3>>}

(* What a client sends *)
PosInputs == {<<35, -20>>}

SizeInputs == {<<4, 2>>}

ScaleInputs == {20}

----------------------------------------------------------------------------
(* Config: per object pos, size and, for networks, expanded *)

NewConfig == [obj \in Objects |-> [pos |-> NonePos, size |-> NonePos, expanded |-> FALSE]]

Line(uid, field, value) == [uid |-> uid, field |-> field, value |-> value]

(* dumps with the branch for nodes left out *)
DumpLines_NoNodes(cfg, obj, uid) ==
    CASE Kind(obj) = "ens" ->
            <<Line(uid, "pos", cfg[obj].pos), Line(uid, "size", cfg[obj].size)>>
      [] Kind(obj) = "net" ->
            <<Line(uid, "pos", cfg[obj].pos), Line(uid, "size", cfg[obj].size),
              Line(uid, "expanded", cfg[obj].expanded)>>
      [] OTHER -> <<>>

DumpLines(cfg, obj, uid) ==
    CASE Kind(obj) \in {"ens", "node"} ->
            <<Line(uid, "pos", cfg[obj].pos), Line(uid, "size", cfg[obj].size)>>
      [] Kind(obj) = "net" ->
            <<Line(uid, "pos", cfg[obj].pos), Line(uid, "size", cfg[obj].size),
              Line(uid, "expanded", cfg[obj].expanded)>>
      [] OTHER -> <<>>

RECURSIVE DumpFrom(_, _, _)
DumpFrom(cfg, known, i) ==
    IF i > Len(UidOrder) THEN <<>>
    ELSE (IF UidOrder[i] \in DOMAIN known
          THEN DumpLines(cfg, known[UidOrder[i]], UidOrder[i])
          ELSE <<>>) \o DumpFrom(cfg, known, i + 1)

(* Config.dumps(uids) *)
dumps(cfg, known) == DumpFrom(cfg, known, 1)

(* exec of one line 'config[<uid>].<field>=<value>' *)
ExecLine(cfg, line) ==
    [cfg EXCEPT ![Resolve(line.uid)] =
        CASE line.field = "pos" -> [@ EXCEPT !.pos = line.value]
          [] line.field = "size" -> [@ EXCEPT !.size = line.value]
          [] line.field = "expanded" -> [@ EXCEPT !.expanded = line.value]]

RECURSIVE ExecLines(_, _)
ExecLines(cfg, lines) ==
    IF lines = <<>> THEN cfg
    ELSE ExecLines(ExecLine(cfg, Head(lines)), Tail(lines))

(* find_config with a filename: a new Config, then exec of the file's text *)
LoadConfig(text) == ExecLines(NewConfig, text)

(* The Config object session s works on *)
Cfg(s) == IF filename THEN config[s] ELSE cache

----------------------------------------------------------------------------
(* Small helpers *)

(* A truncation that drops the first element of the chain instead *)
Front_DropFirst(seq) == IF seq = <<>> THEN <<>> ELSE Tail(seq)

(* seq[:-1] *)
Front(seq) == SubSeq(seq, 1, Len(seq) - 1)

Last(seq) == seq[Len(seq)]

Count(seq, x) == Cardinality({i \in 1..Len(seq) : seq[i] = x})

NotShown == [pos |-> NonePos, size |-> NonePos]

(* The assignment self.config[obj].<field> = ... on the Config session s holds *)
SetCfg(s, newcfg) ==
    IF filename
    THEN config' = [config EXCEPT ![s] = newcfg] /\ UNCHANGED cache
    ELSE cache' = newcfg /\ UNCHANGED config

----------------------------------------------------------------------------
(* NetGraph.get_parents *)

(* A loop body that returns after the first child *)
IndexChildren_FirstOnly(ps, children, net_uid) ==
    IF children = <<>> THEN ps
    ELSE (get_uid(Head(children)) :> net_uid) @@ ps

(* One pass of the while loop body for the popped network: its children's   *)
(* parent pointers.                                                         *)
RECURSIVE IndexChildren(_, _, _)
IndexChildren(ps, children, net_uid) ==
    IF children = <<>> THEN ps
    ELSE IndexChildren((get_uid(Head(children)) :> net_uid) @@ ps,
                       Tail(children), net_uid)

(* while uid not in self.parents: pop the next network and index it.        *)
(* ok = FALSE is networks_to_search.pop(0) on an empty list (IndexError).   *)
RECURSIVE SearchParents(_, _, _, _)
SearchParents(t, uid, ps, nts) ==
    IF uid \in DOMAIN ps THEN [ok |-> TRUE, parents |-> ps, nts |-> nts]
    ELSE IF nts = <<>> THEN [ok |-> FALSE, parents |-> ps, nts |-> nts]
    ELSE LET net == Head(nts)
             children == nodes(t, net) \o ensembles(t, net) \o networks(t, net)
         IN  SearchParents(t, uid, IndexChildren(ps, children, get_uid(net)),
                           Tail(nts) \o networks(t, net))

(* The networks that loop pops from networks_to_search, in order *)
RECURSIVE SearchedBy(_, _, _, _)
SearchedBy(t, uid, ps, nts) ==
    IF uid \in DOMAIN ps \/ nts = <<>> THEN <<>>
    ELSE LET net == Head(nts)
             children == nodes(t, net) \o ensembles(t, net) \o networks(t, net)
         IN  <<net>> \o SearchedBy(t, uid, IndexChildren(ps, children, get_uid(net)),
                                   Tail(nts) \o networks(t, net))

(* A walk that stops at the first parent *)
WalkParents_OneStep(chain, ps) ==
    IF Last(chain) \in DOMAIN ps THEN Append(chain, ps[Last(chain)]) ELSE chain

(* parents = [uid]; while parents[-1] in self.parents: append its parent *)
RECURSIVE WalkParents(_, _)
WalkParents(chain, ps) ==
    IF Last(chain) \in DOMAIN ps
    THEN WalkParents(Append(chain, ps[Last(chain)]), ps)
    ELSE chain

get_parents(t, uid, ps, nts) ==
    LET r == SearchParents(t, uid, ps, nts)
    IN  [ok |-> r.ok, parents |-> r.parents, nts |-> r.nts,
         chain |-> IF r.ok THEN WalkParents(<<uid>>, r.parents) ELSE <<>>]

----------------------------------------------------------------------------
(* Construction *)

(* NetGraph.find_config *)
find_config == IF filename THEN LoadConfig(file) ELSE cache

(* Every connected session has just been constructed (__init__) *)
Constructed ==
    /\ file = <<>>
    /\ cache = NewConfig
    /\ config = [s \in Sessions |-> NewConfig]
    /\ to_be_expanded = [s \in Sessions |-> <<Root>>]
    /\ uids = [s \in Sessions |-> <<>>]
    /\ parents = [s \in Sessions |-> <<>>]
    /\ networks_to_search = [s \in Sessions |-> <<Root>>]
    /\ searched = [s \in Sessions |-> <<>>]
    /\ last_collapsed = [s \in Sessions |-> {}]
    /\ lock = "None"
    /\ pc = [s \in Sessions |-> "idle"]
    /\ cur = [s \in Sessions |-> "None"]
    /\ out = [s \in Sessions |-> <<>>]
    /\ raised = [s \in Sessions |-> "None"]
    /\ enqueued = [s \in Sessions |-> <<Root>>]
    /\ popped = [s \in Sessions |-> <<>>]
    /\ shown = [s \in Sessions |-> [obj \in Objects |-> NotShown]]
    /\ nacts = 0
    /\ nrestarts = 0

(* One viewer, any of the hierarchies, with or without a backing file *)
Init ==
    /\ topo \in Topologies
    /\ live = {"s1"}
    /\ filename \in BOOLEAN
    /\ writable = TRUE
    /\ Constructed

(* Two viewers of the same model at once *)
InitTwo ==
    /\ topo \in {"flat"}
    /\ live = Sessions
    /\ filename \in BOOLEAN
    /\ writable = TRUE
    /\ Constructed

(* One viewer of a hierarchy whose connection endpoints lie deep or outside *)
InitChains ==
    /\ topo \in ChainTopologies
    /\ live = {"s1"}
    /\ filename \in BOOLEAN
    /\ writable = TRUE
    /\ Constructed

(* One viewer whose .cfg file cannot be opened for writing *)
InitReadOnly ==
    /\ topo \in {"nested"}
    /\ live = {"s1"}
    /\ filename \in BOOLEAN
    /\ writable = FALSE
    /\ Constructed

(* The client reconnects: a new NetGraph replaces session s (__init__).     *)
Restart(s) ==
    /\ pc[s] = "idle"
    /\ nrestarts < MaxRestarts
    /\ nrestarts' = nrestarts + 1
    /\ config' = [config EXCEPT ![s] = IF filename THEN find_config ELSE @]
    /\ to_be_expanded' = [to_be_expanded EXCEPT ![s] = <<Root>>]
    /\ uids' = [uids EXCEPT ![s] = <<>>]
    /\ parents' = [parents EXCEPT ![s] = <<>>]
    /\ networks_to_search' = [networks_to_search EXCEPT ![s] = <<Root>>]
    /\ searched' = [searched EXCEPT ![s] = <<>>]
    /\ last_collapsed' = [last_collapsed EXCEPT ![s] = {}]
    /\ cur' = [cur EXCEPT ![s] = "None"]
    /\ out' = [out EXCEPT ![s] = <<>>]
    /\ raised' = [raised EXCEPT ![s] = "None"]
    /\ enqueued' = [enqueued EXCEPT ![s] = <<Root>>]
    /\ popped' = [popped EXCEPT ![s] = <<>>]
    /\ shown' = [shown EXCEPT ![s] = [obj \in Objects |-> NotShown]]
    /\ UNCHANGED <<topo, live, filename, writable, file, cache, lock, pc, nacts>>

----------------------------------------------------------------------------
(* update_client: one expansion step, run by the session's own thread.      *)
(* The step is split where another thread can run in between: the dequeue,  *)
(* one create_object / create_connection call per step, and the end.        *)

(* expand_network with the nodes loop ahead of the ensembles loop *)
Items_NodesFirst(t, network) ==
    nodes(t, network) \o ensembles(t, network) \o networks(t, network)
        \o connections(t, network)

(* What expand_network walks through, in its order *)
Items(t, network) ==
    ensembles(t, network) \o nodes(t, network) \o networks(t, network)
        \o connections(t, network)

(* expand_network that passes parent = None for every network *)
ParentOf_AlwaysNone(network) == "None"

(* parent = None for the root, else the network's uid *)
ParentOf(network) == IF network = Root THEN "None" ELSE get_uid(network)

(* create_object without the 'if pos is None' test: a new point every time *)
ObjectPos_Rerandom(cfg, obj) == RandomPos

(* create_object: the pos it uses (a random point when the Config has none) *)
ObjectPos(cfg, obj) ==
    IF cfg[obj].pos = NonePos THEN RandomPos ELSE {cfg[obj].pos}

(* create_object: the size it uses *)
ObjectSize(cfg, obj) ==
    IF cfg[obj].size = NonePos THEN DEFAULT_SIZE ELSE cfg[obj].size

ObjectInfo(cfg, obj, pos, size, parent) ==
    IF Kind(obj) = "net"
    THEN [uid |-> get_uid(obj), label |-> get_label(obj), pos |-> pos,
          type |-> "net", size |-> size, parent |-> parent,
          expanded |-> cfg[obj].expanded]
    ELSE [uid |-> get_uid(obj), label |-> get_label(obj), pos |-> pos,
          type |-> Kind(obj), size |-> size, parent |-> parent]

(* The session's server loop calls message and update_client one after   *)
(* the other, and goes on calling them after a call has raised.          *)
Serving(s) == pc[s] = "idle"

(* if len(to_be_expanded) > 0: lock.acquire(); network = pop(0); and the    *)
(* first lines of expand_network. A popped object that is no network has    *)
(* no .ensembles: the call raises and the lock stays acquired.              *)
Dequeue(s) ==
    /\ Serving(s)
    /\ Len(to_be_expanded[s]) > 0
    /\ lock = "None"
    /\ lock' = s
    /\ LET network == Head(to_be_expanded[s])
       IN  /\ to_be_expanded' = [to_be_expanded EXCEPT ![s] = Tail(@)]
           /\ popped' = [popped EXCEPT ![s] = Append(@, network)]
           /\ cur' = [cur EXCEPT ![s] = network]
           /\ out' = [out EXCEPT ![s] = <<>>]
           /\ IF Kind(network) = "net"
              THEN /\ pc' = [pc EXCEPT ![s] = "expanding"]
                   /\ raised' = [raised EXCEPT ![s] = "None"]
              ELSE /\ pc' = pc
                   /\ raised' = [raised EXCEPT ![s] = "AttributeError"]
    /\ UNCHANGED <<topo, live, filename, writable, file, cache, config, uids, parents,
                   networks_to_search, searched, enqueued, last_collapsed, shown, nacts, nrestarts>>

(* create_object(client, obj, type, parent) *)
create_object(s, obj, parent) ==
    \E pos \in ObjectPos(Cfg(s), obj) :
        LET size == ObjectSize(Cfg(s), obj)
            newcfg == [Cfg(s) EXCEPT ![obj].pos = pos, ![obj].size = size]
        IN  /\ SetCfg(s, newcfg)
            /\ uids' = [uids EXCEPT ![s] = (get_uid(obj) :> obj) @@ @]
            /\ out' = [out EXCEPT ![s] =
                          Append(@, ObjectInfo(newcfg, obj, pos, size, parent))]
            /\ shown' = [shown EXCEPT ![s][obj] = [pos |-> pos, size |-> size]]
            /\ UNCHANGED <<parents, networks_to_search, searched, lock, pc, raised>>

(* create_connection(client, conn, parent) *)
create_connection(s, conn, parent) ==
    LET pre == get_uid(pre_obj(conn))
        post == get_uid(post_obj(conn))
        uid == conn_uid(conn)
        r1 == get_parents(topo, pre, parents[s], networks_to_search[s])
        r2 == get_parents(topo, post, r1.parents, r1.nts)
        r == IF r1.ok THEN r2 ELSE r1
    IN  /\ uids' = [uids EXCEPT ![s] = (uid :> conn) @@ @]
        /\ parents' = [parents EXCEPT ![s] = r.parents]
        /\ networks_to_search' = [networks_to_search EXCEPT ![s] = r.nts]
        /\ searched' = [searched EXCEPT ![s] =
               @ \o SearchedBy(topo, pre, parents[s], networks_to_search[s])
                 \o (IF r1.ok THEN SearchedBy(topo, post, r1.parents, r1.nts)
                     ELSE <<>>)]
        /\ IF r1.ok /\ r2.ok
           THEN /\ out' = [out EXCEPT ![s] =
                              Append(@, [uid |-> uid, pre |-> Front(r1.chain),
                                         post |-> Front(r2.chain),
                                         type |-> "conn", parent |-> parent])]
                /\ UNCHANGED <<pc, raised>>
           ELSE \* IndexError out of get_parents: the step ends, lock still held
                /\ pc' = [pc EXCEPT ![s] = "idle"]
                /\ raised' = [raised EXCEPT ![s] = "IndexError"]
                /\ UNCHANGED out
        /\ UNCHANGED <<cache, config, lock, shown>>

(* The next create_object / create_connection call of expand_network *)
Emit(s) ==
    /\ pc[s] = "expanding"
    /\ Len(out[s]) < Len(Items(topo, cur[s]))
    /\ LET item == Items(topo, cur[s])[Len(out[s]) + 1]
       IN  IF Kind(item) = "conn"
           THEN create_connection(s, item, ParentOf(cur[s]))
           ELSE create_object(s, item, ParentOf(cur[s]))
    /\ UNCHANGED <<topo, live, filename, writable, file, to_be_expanded, cur, enqueued,
                   last_collapsed, popped,
                   nacts, nrestarts>>

(* send_pan_and_zoom *)
PanZoom(cfg) ==
    <<[type |-> "pan",
       pan |-> IF cfg[Root].pos = NonePos THEN DEFAULT_PAN ELSE cfg[Root].pos],
      [type |-> "zoom",
       zoom |-> IF cfg[Root].size = NonePos THEN DEFAULT_ZOOM ELSE cfg[Root].size[1]]>>

(* self.config[network].expanded = True; pan and zoom for the root;         *)
(* lock.release(). Nothing here calls save_config.                          *)
Finish(s) ==
    /\ pc[s] = "expanding"
    /\ Len(out[s]) = Len(Items(topo, cur[s]))
    /\ LET newcfg == [Cfg(s) EXCEPT ![cur[s]].expanded = TRUE]
       IN  /\ SetCfg(s, newcfg)
           /\ out' = [out EXCEPT ![s] =
                          IF cur[s] = Root THEN @ \o PanZoom(newcfg) ELSE @]
    /\ lock' = "None"
    /\ pc' = [pc EXCEPT ![s] = "idle"]
    /\ UNCHANGED <<topo, live, filename, writable, file, to_be_expanded, uids, parents,
                   networks_to_search, searched, cur, raised, enqueued, last_collapsed,
                   popped, shown,
                   nacts, nrestarts>>

----------------------------------------------------------------------------
(* message(msg): the client action handlers, run by the session's own       *)
(* thread between two update_client calls. None of them touches the lock.   *)

(* The act_* methods getattr can find, and the action names a client sends *)
ActNames == {"expand", "collapse", "pan", "zoom", "pos", "size"}

ActInputs == ActNames \cup {"reset"}

(* A save_config that gives up without telling anyone *)
save_config_Silent(s, cfg, known) ==
    IF filename /\ writable
    THEN /\ file' = dumps(cfg, known)
         /\ raised' = [raised EXCEPT ![s] = "None"]
    ELSE /\ file' = file
         /\ raised' = [raised EXCEPT ![s] = "None"]

(* save_config: filename + '.cfg' is a TypeError when filename is None;     *)
(* otherwise the file is rewritten with dumps of this session's Config      *)
(* over this session's uids.                                                *)
save_config(s, cfg, known) ==
    IF filename /\ writable
    THEN /\ file' = dumps(cfg, known)
         /\ raised' = [raised EXCEPT ![s] = "None"]
    ELSE /\ file' = file
         /\ raised' = [raised EXCEPT ![s] = IF filename THEN "IOError" ELSE "TypeError"]

(* A handler whose exception is swallowed instead of raised *)
Raise_Swallowed(s, exc) ==
    /\ raised' = [raised EXCEPT ![s] = "None"]
    /\ UNCHANGED <<file, cache, config, to_be_expanded, enqueued, last_collapsed, shown>>

(* A handler that raised before it changed anything *)
Raise(s, exc) ==
    /\ raised' = [raised EXCEPT ![s] = exc]
    /\ UNCHANGED <<file, cache, config, to_be_expanded, enqueued, last_collapsed, shown>>

Handling(s) ==
    /\ Serving(s)
    /\ nacts < MaxActs
    /\ nacts' = nacts + 1
    /\ UNCHANGED <<topo, live, filename, writable, uids, parents, networks_to_search,
                   searched, lock, pc,
                   cur, out, popped, nrestarts>>

(* A pos/size action on obj ends the validity of what was sent for it *)
Moved(obj) == [s \in Sessions |-> [shown[s] EXCEPT ![obj] = NotShown]]

(* message(): info.get('act') is None, the message is printed *)
msg_noact(s) ==
    /\ Handling(s)
    /\ raised' = [raised EXCEPT ![s] = "None"]
    /\ UNCHANGED <<file, cache, config, to_be_expanded, enqueued, last_collapsed, shown>>

(* An unknown action name that falls through to some existing handler *)
msg_unknown_AsCollapse(s, act) ==
    /\ Handling(s)
    /\ act \notin ActNames
    /\ LET newcfg == [Cfg(s) EXCEPT ![Root].expanded = FALSE]
       IN  SetCfg(s, newcfg) /\ save_config(s, newcfg, uids[s])
    /\ UNCHANGED <<to_be_expanded, enqueued, last_collapsed, shown>>

(* message(): getattr(self, 'act_' + action) of a name with no handler *)
msg_unknown(s, act) ==
    /\ Handling(s)
    /\ act \notin ActNames
    /\ Raise(s, "AttributeError")

act_expand(s, uid) ==
    /\ Handling(s)
    /\ IF uid \notin DOMAIN uids[s] THEN Raise(s, "KeyError")
       ELSE LET net == uids[s][uid]
            IN  /\ to_be_expanded' = [to_be_expanded EXCEPT ![s] = Append(@, net)]
                /\ enqueued' = [enqueued EXCEPT ![s] = Append(@, net)]
                /\ IF Kind(net) = "net"
                   THEN LET newcfg == [Cfg(s) EXCEPT ![net].expanded = TRUE]
                        IN  /\ SetCfg(s, newcfg) /\ save_config(s, newcfg, uids[s])
                            /\ last_collapsed' = [last_collapsed EXCEPT ![s] = @ \ {net}]
                   ELSE \* the Config has no 'expanded' for this object
                        /\ raised' = [raised EXCEPT ![s] = "ConfigError"]
                        /\ UNCHANGED <<file, cache, config, last_collapsed>>
                /\ UNCHANGED shown

act_collapse(s, uid) ==
    /\ Handling(s)
    /\ IF uid \notin DOMAIN uids[s] THEN Raise(s, "KeyError")
       ELSE LET net == uids[s][uid]
            IN  IF Kind(net) = "net"
                THEN LET newcfg == [Cfg(s) EXCEPT ![net].expanded = FALSE]
                     IN  /\ SetCfg(s, newcfg) /\ save_config(s, newcfg, uids[s])
                         /\ last_collapsed' = [last_collapsed EXCEPT ![s] = @ \cup {net}]
                         /\ UNCHANGED <<to_be_expanded, enqueued, shown>>
                ELSE Raise(s, "ConfigError")

act_pan(s, xy) ==
    /\ Handling(s)
    /\ LET newcfg == [Cfg(s) EXCEPT ![Root].pos = xy]
       IN  SetCfg(s, newcfg) /\ save_config(s, newcfg, uids[s])
    /\ UNCHANGED <<to_be_expanded, enqueued, last_collapsed, shown>>

act_zoom(s, scale, xy) ==
    /\ Handling(s)
    /\ LET newcfg == [Cfg(s) EXCEPT ![Root].size = <<scale, scale>>,
                                    ![Root].pos = xy]
       IN  SetCfg(s, newcfg) /\ save_config(s, newcfg, uids[s])
    /\ UNCHANGED <<to_be_expanded, enqueued, last_collapsed, shown>>

act_pos(s, uid, xy) ==
    /\ Handling(s)
    /\ IF uid \notin DOMAIN uids[s] THEN Raise(s, "KeyError")
       ELSE LET obj == uids[s][uid]
            IN  IF Kind(obj) = "conn" THEN Raise(s, "ConfigError")
                ELSE LET newcfg == [Cfg(s) EXCEPT ![obj].pos = xy]
                     IN  /\ SetCfg(s, newcfg) /\ save_config(s, newcfg, uids[s])
                         /\ shown' = Moved(obj)
                         /\ UNCHANGED <<to_be_expanded, enqueued, last_collapsed>>

act_size(s, uid, wh) ==
    /\ Handling(s)
    /\ IF uid \notin DOMAIN uids[s] THEN Raise(s, "KeyError")
       ELSE LET obj == uids[s][uid]
            IN  IF Kind(obj) = "conn" THEN Raise(s, "ConfigError")
                ELSE LET newcfg == [Cfg(s) EXCEPT ![obj].size = wh]
                     IN  /\ SetCfg(s, newcfg) /\ save_config(s, newcfg, uids[s])
                         /\ shown' = Moved(obj)
                         /\ UNCHANGED <<to_be_expanded, enqueued, last_collapsed>>

----------------------------------------------------------------------------

Next ==
    \/ \E s \in live : Restart(s)
    \/ \E s \in live : Dequeue(s)
    \/ \E s \in live : Emit(s)
    \/ \E s \in live : Finish(s)
    \/ \E s \in live, uid \in UidInputs : act_expand(s, uid)
    \/ \E s \in live, uid \in UidInputs : act_collapse(s, uid)
    \/ \E s \in live, xy \in PosInputs : act_pan(s, xy)
    \/ \E s \in live, scale \in ScaleInputs, xy \in PosInputs : act_zoom(s, scale, xy)
    \/ \E s \in live, uid \in UidInputs, xy \in PosInputs : act_pos(s, uid, xy)
    \/ \E s \in live, uid \in UidInputs, wh \in SizeInputs : act_size(s, uid, wh)
    \/ \E s \in live : msg_noact(s)
    \/ \E s \in live, act \in ActInputs : msg_unknown(s, act)

Spec == Init /\ [][Next]_vars

SpecTwo == InitTwo /\ [][Next]_vars

SpecChains == InitChains /\ [][Next]_vars

SpecReadOnly == InitReadOnly /\ [][Next]_vars

----------------------------------------------------------------------------
(* Properties *)

(* What a session constructed now would read back from the persisted store *)
Stored == LoadConfig(file)

(* The object a uid names for session s, when it is a layout object *)
Names(s, uid, obj) ==
    /\ uid \in DOMAIN uids[s]
    /\ uids[s][uid] = obj
    /\ Kind(obj) # "conn"

PosAction(obj) ==
    \E s \in live, xy \in PosInputs : act_pos(s, get_uid(obj), xy)

SizeAction(obj) ==
    \E s \in live, wh \in SizeInputs : act_size(s, get_uid(obj), wh)

(* C1: once an object's pos or size is assigned, only an explicit pos/size *)
(* action on that object changes or removes it, in the session's Config    *)
(* and in the persisted store: every step that is not such an action       *)
(* leaves an assigned stored pos/size as it is, so that a later session    *)
(* still reads it.                                                         *)
C1_PosSizeNeverDiscarded ==
    [][\A obj \in Objects \ {Root} :
         /\ (Stored[obj].pos # NonePos /\ ~PosAction(obj))
                => Stored'[obj].pos = Stored[obj].pos
         /\ (Stored[obj].size # NonePos /\ ~SizeAction(obj))
                => Stored'[obj].size = Stored[obj].size
         /\ \A s \in live :
              nrestarts' = nrestarts =>
                /\ (Cfg(s)[obj].pos # NonePos /\ ~PosAction(obj))
                       => Cfg(s)'[obj].pos = Cfg(s)[obj].pos
                /\ (Cfg(s)[obj].size # NonePos /\ ~SizeAction(obj))
                       => Cfg(s)'[obj].size = Cfg(s)[obj].size]_vars

(* C2: a pos (size) action on an object the session knows, followed by a   *)
(* restart that reloads the store, yields that pos (size): right after the *)
(* action, the Config a newly constructed session gets holds the value.    *)
C2_PosSurvivesRestart ==
    [][\A s \in live, uid \in UidInputs, obj \in Objects :
         Names(s, uid, obj) =>
           /\ \A xy \in PosInputs :
                act_pos(s, uid, xy) => find_config'[obj].pos = xy
           /\ \A wh \in SizeInputs :
                act_size(s, uid, wh) => find_config'[obj].size = wh]_vars

(* A restarted file-backed session that has not expanded anything yet holds *)
(* the pos a client gave before the restart.                                *)
C2_Witness ==
    /\ filename
    /\ nrestarts > 0
    /\ \E s \in live, obj \in Objects \ {Root} :
         /\ uids[s] = <<>>
         /\ popped[s] = <<>>
         /\ config[s][obj].pos \in PosInputs

(* C3: pan and zoom are persisted: after pan(x,y) or zoom(scale,x,y) in a  *)
(* file-backed session the persisted store holds the root's new pos (and   *)
(* size).                                                                  *)
C3_PanZoomPersisted ==
    [][filename =>
         \A s \in live, xy \in PosInputs :
           /\ act_pan(s, xy) => Stored'[Root].pos = xy
           /\ \A scale \in ScaleInputs :
                act_zoom(s, scale, xy) =>
                    /\ Stored'[Root].pos = xy
                    /\ Stored'[Root].size = <<scale, scale>>]_vars

(* C4: every expansion step persists: when update_client has finished an   *)
(* expansion, the persisted store is the serialization of the session's    *)
(* Config over its uids.                                                   *)
C4_ExpansionPersists ==
    [][filename =>
         \A s \in live :
           Finish(s) => file' = dumps(Cfg(s)', uids'[s])]_vars

Range(seq) == {seq[i] : i \in 1..Len(seq)}

Containers == {obj \in Objects : Kind(obj) = "net"}

TickStep(s) == Dequeue(s) \/ Emit(s) \/ Finish(s)

MsgKey(msg) ==
    <<msg.type, IF msg.type \in {"pan", "zoom"} THEN "None" ELSE msg.uid>>

MsgKeys(msgs) == [i \in 1..Len(msgs) |-> MsgKey(msgs[i])]

ObjectKeys(objs, type) == [i \in 1..Len(objs) |-> <<type, get_uid(objs[i])>>]

(* The sequence the specification fixes for one expansion step of C *)
ExpectedKeys(t, C) ==
    ObjectKeys(ensembles(t, C), "ens") \o ObjectKeys(nodes(t, C), "node")
        \o ObjectKeys(networks(t, C), "net")
        \o [i \in 1..Len(connections(t, C)) |-> <<"conn", conn_uid(connections(t, C)[i])>>]
        \o (IF C = Root THEN << <<"pan", "None">>, <<"zoom", "None">> >> ELSE <<>>)

(* The expansion step of session s has run to its end *)
StepDone(s) == pc[s] = "idle" /\ Kind(cur[s]) = "net" /\ lock # s

(* C6: the messages of one expansion step of container C are exactly: one  *)
(* create-object per direct child in the order ensembles, nodes,           *)
(* sub-networks, then one create-connection per direct connection, then    *)
(* pan and zoom if and only if C is the root. An empty root gives pan,     *)
(* zoom; a root with ensemble E and node N gives E, N, pan, zoom.          *)
C6_MessageSequence ==
    \A s \in live :
        Kind(cur[s]) = "net" =>
            LET keys == MsgKeys(out[s])
                exp == ExpectedKeys(topo, cur[s])
            IN  /\ Len(keys) <= Len(exp)
                /\ keys = SubSeq(exp, 1, Len(keys))
                /\ StepDone(s) => keys = exp
                /\ (StepDone(s) /\ topo = "empty") =>
                       keys = << <<"pan", "None">>, <<"zoom", "None">> >>
                /\ (StepDone(s) /\ topo = "flat") =>
                       keys = << <<"ens", "uid_E">>, <<"node", "uid_N">>,
                                 <<"pan", "None">>, <<"zoom", "None">> >>

(* The root of the nested hierarchy has been expanded to the end *)
C6_Witness ==
    \E s \in live :
        /\ topo = "nested"
        /\ StepDone(s)
        /\ cur[s] = Root
        /\ Len(out[s]) = 7

(* An expand action of session s on the collapsed sub-network obj *)
ExpandCollapsed(s, obj) ==
    /\ Kind(obj) = "net"
    /\ Names(s, get_uid(obj), obj)
    /\ ~Cfg(s)[obj].expanded
    /\ act_expand(s, get_uid(obj))

(* C7 as claimed: after expand(uid) of a collapsed sub-network S, the next *)
(* synchronization tick of the session is the one that expands S, i.e. S   *)
(* is what the next tick dequeues. (Stated for handlers that returned      *)
(* normally and for queues that hold containers only.)                     *)
C7_NextTickExpandsIt ==
    [][\A s \in live, obj \in Objects :
         (/\ ExpandCollapsed(s, obj)
          /\ raised'[s] = "None"
          /\ \A i \in 1..Len(to_be_expanded[s]) : Kind(to_be_expanded[s][i]) = "net")
            => Head(to_be_expanded'[s]) = obj]_vars

(* C7 amended: after expand(uid) of a collapsed sub-network S, S is at the *)
(* back of the queue (at its front when nothing else was queued), and the  *)
(* tick that dequeues S sends the creation messages of S's direct          *)
(* children, each with parent = uid(S).                                    *)
C7_DequeuingTickExpandsIt ==
    [][\A s \in live, obj \in Objects :
         /\ ExpandCollapsed(s, obj) =>
              /\ Last(to_be_expanded'[s]) = obj
              /\ to_be_expanded[s] = <<>> => Head(to_be_expanded'[s]) = obj
         /\ (Finish(s) /\ cur[s] = obj /\ obj # Root) =>
              /\ MsgKeys(out'[s]) =
                     ObjectKeys(ensembles(topo, obj), "ens")
                         \o ObjectKeys(nodes(topo, obj), "node")
                         \o ObjectKeys(networks(topo, obj), "net")
                         \o [i \in 1..Len(connections(topo, obj)) |->
                                <<"conn", conn_uid(connections(topo, obj)[i])>>]
              /\ \A i \in 1..Len(out'[s]) : out'[s][i].parent = get_uid(obj)]_vars

(* S was expanded on request and its child went out with parent uid_S *)
C7_Witness ==
    \E s \in live :
        /\ StepDone(s)
        /\ cur[s] = "S"
        /\ Count(enqueued[s], "S") = 1
        /\ Len(out[s]) = 1
        /\ out[s][1].uid = "uid_E2"
        /\ out[s][1].parent = "uid_S"

(* A tick can still get to what is queued: the lock is free, or it is held *)
(* by an expansion step in progress, whose last step releases it.          *)
CanDrain ==
    lock = "None" \/ (lock \in live /\ pc[lock] = "expanding")

(* C8: each enqueue is processed exactly once, in FIFO order: what was     *)
(* dequeued followed by what is queued is what was enqueued, in order; no  *)
(* container is expanded more often than it was enqueued; the root is      *)
(* enqueued exactly once per session; and, for the two numbers to become   *)
(* equal under periodic ticks, a queued container is never left where no   *)
(* tick can dequeue it any more.                                           *)
C8_ExactlyOncePerEnqueue ==
    \A s \in live :
        /\ popped[s] \o to_be_expanded[s] = enqueued[s]
        /\ Count(enqueued[s], Root) = 1
        /\ \A c \in Containers : Count(popped[s], c) <= Count(enqueued[s], c)
        /\ (\E c \in Containers : Count(popped[s], c) < Count(enqueued[s], c))
               => CanDrain

(* The part of C8 that needs no progress: FIFO order, at most one          *)
(* expansion per enqueue, the root enqueued once.                          *)
C8_FifoAtMostOnce ==
    \A s \in live :
        /\ popped[s] \o to_be_expanded[s] = enqueued[s]
        /\ Count(enqueued[s], Root) = 1
        /\ \A c \in Containers : Count(popped[s], c) <= Count(enqueued[s], c)

(* Any client action handled by session s *)
Handler(s) ==
    \/ \E uid \in UidInputs : act_expand(s, uid)
    \/ \E uid \in UidInputs : act_collapse(s, uid)
    \/ \E xy \in PosInputs : act_pan(s, xy)
    \/ \E scale \in ScaleInputs, xy \in PosInputs : act_zoom(s, scale, xy)
    \/ \E uid \in UidInputs, xy \in PosInputs : act_pos(s, uid, xy)
    \/ \E uid \in UidInputs, wh \in SizeInputs : act_size(s, uid, wh)

(* C9: the sessions of one model share one LayoutStore, with or without a  *)
(* backing file: what one session's pos, size, expand or collapse action   *)
(* sets is what every other session has from then on, and the persisted    *)
(* store written by the action still holds the pos another session set on  *)
(* another object.                                                         *)
C9_SessionsShareStore ==
    [][\A s \in live, t \in live, uid \in UidInputs, obj \in Objects :
         Names(s, uid, obj) =>
           /\ \A xy \in PosInputs :
                act_pos(s, uid, xy) =>
                    /\ Cfg(t)'[obj].pos = xy
                    /\ \A o \in Objects \ {Root, obj} :
                         (filename /\ Cfg(t)[o].pos \in PosInputs)
                             => Stored'[o].pos = Cfg(t)[o].pos
           /\ \A wh \in SizeInputs :
                act_size(s, uid, wh) => Cfg(t)'[obj].size = wh
           /\ (Kind(obj) = "net" /\ act_expand(s, uid)) => Cfg(t)'[obj].expanded
           /\ (Kind(obj) = "net" /\ act_collapse(s, uid)) => ~Cfg(t)'[obj].expanded]_vars

(* C10: no action handler of a session changes the LayoutStore (the Config *)
(* or the persisted store) while another session is inside an expansion    *)
(* step, between its dequeue and its last message.                         *)
C10_HandlersExcludeExpansion ==
    [][\A s \in live :
         (Handler(s) /\ <<cache, config, file>>' # <<cache, config, file>>)
            => \A t \in live \ {s} : pc[t] # "expanding"]_vars

(* C11: an expand, collapse, pos or size action naming a uid the session   *)
(* does not know fails as object-not-found (KeyError) and is a no-op: the  *)
(* LayoutStore, the ExpansionQueue, the uid registry, the parent index and *)
(* the persisted store are unchanged, and the session goes on serving.     *)
UnknownUid(s, uid) ==
    \/ act_expand(s, uid)
    \/ act_collapse(s, uid)
    \/ \E xy \in PosInputs : act_pos(s, uid, xy)
    \/ \E wh \in SizeInputs : act_size(s, uid, wh)

C11_UnknownUidIsNoOp ==
    [][\A s \in live, uid \in UidInputs :
         (uid \notin DOMAIN uids[s] /\ UnknownUid(s, uid)) =>
            /\ raised'[s] = "KeyError"
            /\ UNCHANGED <<cache, config, to_be_expanded, uids, parents,
                           networks_to_search, file>>
            /\ Serving(s)']_vars

C11_Witness ==
    \E s \in live : raised[s] = "KeyError" /\ Serving(s) /\ nacts > 0

(* C12: a message with no act field, or with an act that names no handler, *)
(* changes neither the LayoutStore nor the ExpansionQueue nor the          *)
(* persisted store; the unknown name is reported (AttributeError) and the  *)
(* session goes on serving.                                                *)
C12_MalformedDropped ==
    [][\A s \in live :
         /\ msg_noact(s) =>
               /\ UNCHANGED <<cache, config, to_be_expanded, file>>
               /\ Serving(s)'
         /\ \A act \in ActInputs :
              msg_unknown(s, act) =>
                /\ raised'[s] = "AttributeError"
                /\ UNCHANGED <<cache, config, to_be_expanded, file>>
                /\ Serving(s)']_vars

C12_Witness ==
    \E s \in live :
        raised[s] = "AttributeError" /\ lock = "None" /\ Serving(s) /\ nacts > 0

(* C13: a flush that fails inside an action handler (no filename, or the   *)
(* file cannot be written) loses nothing and stops nothing: the Config     *)
(* holds the full effect of the action, for expand the queue holds the     *)
(* container too, the failure is raised to the caller, the session goes on *)
(* serving, and this is so for every mutation, also one that follows a     *)
(* failed flush: each mutation attempts the flush again.                   *)
FlushFailed(s) == raised[s] \in {"TypeError", "IOError"}

Kept(s) == FlushFailed(s) /\ Serving(s)

C13_FlushFailureKeepsMutation ==
    [][\A s \in live :
         ~(filename /\ writable) =>
           /\ \A xy \in PosInputs :
                /\ act_pan(s, xy) => Cfg(s)'[Root].pos = xy /\ Kept(s)'
                /\ \A scale \in ScaleInputs :
                     act_zoom(s, scale, xy) =>
                        /\ Cfg(s)'[Root].pos = xy
                        /\ Cfg(s)'[Root].size = <<scale, scale>>
                        /\ Kept(s)'
           /\ \A uid \in UidInputs, obj \in Objects :
                Names(s, uid, obj) =>
                  /\ \A xy \in PosInputs :
                       act_pos(s, uid, xy) => Cfg(s)'[obj].pos = xy /\ Kept(s)'
                  /\ \A wh \in SizeInputs :
                       act_size(s, uid, wh) => Cfg(s)'[obj].size = wh /\ Kept(s)'
                  /\ (Kind(obj) = "net" /\ act_expand(s, uid)) =>
                        /\ Cfg(s)'[obj].expanded
                        /\ to_be_expanded'[s] = Append(to_be_expanded[s], obj)
                        /\ Kept(s)'
                  /\ (Kind(obj) = "net" /\ act_collapse(s, uid)) =>
                        ~Cfg(s)'[obj].expanded /\ Kept(s)']_vars

(* Two mutations in a row, the second one's flush attempted and failed too *)
C13_Witness ==
    \E s \in live :
        /\ nacts = 2 /\ FlushFailed(s) /\ Serving(s)
        /\ Cfg(s)["E"].pos \in PosInputs
        /\ Cfg(s)["E"].size \in SizeInputs

(* C14: resolving the ancestor chains of a connection never fails: when    *)
(* networks_to_search runs empty before the endpoint is indexed, the       *)
(* endpoint counts as having no parent and the step still emits the        *)
(* connection message.                                                     *)
NextItem(s) == Items(topo, cur[s])[Len(out[s]) + 1]

C14_AncestorChainNeverFails ==
    [][\A s \in live :
         (Emit(s) /\ Kind(NextItem(s)) = "conn") =>
            /\ raised'[s] = "None"
            /\ Len(out'[s]) = Len(out[s]) + 1
            /\ Last(out'[s]).type = "conn"]_vars

(* The hierarchy as the object model has it, apart from any parent index *)
Children(t, net) == Range(nodes(t, net) \o ensembles(t, net) \o networks(t, net))

ContainerOf(t, obj) == CHOOSE net \in Containers : obj \in Children(t, net)

(* uids of the containers around obj, nearest first, the root last *)
RECURSIVE Enclosing(_, _)
Enclosing(t, obj) ==
    IF obj = Root THEN <<>>
    ELSE <<get_uid(ContainerOf(t, obj))>> \o Enclosing(t, ContainerOf(t, obj))

ConnMessages(s) == {i \in 1..Len(out[s]) : out[s][i].type = "conn"}

ContainerUids == {get_uid(c) : c \in Containers}

AllCollapsed(s) == \A c \in Containers \ {Root} : ~Cfg(s)[c].expanded

IndexSound(s) ==
    /\ Range(networks_to_search[s]) \cap Range(searched[s]) = {}
    /\ \A c \in Containers :
         /\ Count(searched[s], c) <= 1
         /\ Count(networks_to_search[s], c) <= 1
         /\ c \in Range(searched[s]) =>
               \A o \in Children(topo, c) :
                   /\ get_uid(o) \in DOMAIN parents[s]
                   /\ parents[s][get_uid(o)] = get_uid(c)

C18_CollapseNotUndone ==
    \A s \in live : \A c \in last_collapsed[s] :
        (to_be_expanded[s] = <<>> /\ Serving(s)) => ~Cfg(s)[c].expanded

(* C19: the ExpansionQueue holds only containers, and an expand action     *)
(* whose uid names an ensemble, a node or a connection adds nothing to it  *)
(* and leaves the LayoutStore unchanged.                                   *)
C19_QueueHoldsContainers ==
    \A s \in live : \A i \in 1..Len(to_be_expanded[s]) :
        Kind(to_be_expanded[s][i]) = "net"

(* C20: the lock is held only while an expansion step is in progress: a    *)
(* tick that acquired it has released it when it returns, also when it     *)
(* returns by an exception.                                                *)
C20_LockReleasedByEveryTick ==
    lock # "None" => (lock \in live /\ pc[lock] = "expanding")

====
